---- MODULE Spec2Model ----
(***************************************************************************)
(* Hyperactive: the parallel random search of BaseOptimizer /              *)
(* RandomSearchOptimizer.  fit() runs one search job in the caller or      *)
(* n_jobs jobs in a multiprocessing.Pool and reduces their candidates to   *)
(* score_best / model_best.                                                *)
(*                                                                         *)
(* Optional values (Python None, "no result yet") are sequences of length  *)
(* 0 or 1: <<>> is None and <<v>> is the value v.                          *)
(***************************************************************************)
EXTENDS Integers, Sequences, FiniteSets, TLC

\* ---- bounds of the model ------------------------------------------------
MaxJobs == 2
MaxIter == 2
NumPos == 2
MaxScore == 1
MaxSeed == 1
MaxTotal == 12
MaxN == 4
MaxModels == 3

\* ---- values --------------------------------------------------------------
None == <<>>
Some(v) == <<v>>

\* the scoring function raising an exception at a position
Raises == 0 - 1

Jobs == 0..(MaxJobs - 1)
Positions == 0..(NumPos - 1)
Scores == 0..MaxScore

\* self._config_.model_type; "xgboost" takes the branches of "sklearn"
ModelTypes == {"sklearn", "keras"}

VARIABLES
    n_iter,        \* self.n_iter
    n_jobs,        \* self._config_.n_jobs
    random_state,  \* self.random_state: None or Some(int)
    scorefn,       \* the external scoring function: position -> score or Raises
    fit_pc,        \* position of the caller inside fit()
    pc,            \* pc[j]: position of job j inside search()
    seed,          \* seed[j]: seed of the random source of job j's process
    cand,          \* cand[j]: the _cand_ local of job j, None once its frame is gone
    loop_i,        \* loop_i[j]: iterations of the search loop job j has executed
    observed,      \* observed[j]: history of <<pos, score>> job j has evaluated
    results,       \* results[j]: outcome of search(j) as the caller receives it
    score_best,    \* self.score_best
    model_best,    \* self.model_best
    n_steps,       \* budgets computed by _set_n_steps, job 0 first
    model_type,    \* self._config_.model_type
    n_models,      \* self.n_models = len(self.model_list)
    memory,        \* self.memory
    model_key,     \* model_key[j]: index in model_list of job j's search_config_key
    n_reports,     \* how often "Not enough jobs to process models" was printed
    cache,         \* cache[j]: the memory of job j's candidate, position -> score
    n_calls,       \* n_calls[j][p]: invocations of the scoring function by job j at p
    arrival,       \* job ids in the order their outcomes reached the caller
    self_n_jobs    \* self.n_jobs, the n_jobs argument as given

vars == <<n_iter, n_jobs, random_state, scorefn, fit_pc, pc, seed, cand,
          loop_i, observed, results, score_best, model_best, n_steps,
          model_type, n_models, memory, model_key, n_reports, cache, n_calls,
          arrival, self_n_jobs>>

\* the arguments of the constructor other than n_jobs, which fit may change
paramVars == <<n_iter, random_state, scorefn, model_type, n_models, memory,
               self_n_jobs>>
configVars == <<paramVars, n_jobs>>
jobVars == <<pc, seed, cand, loop_i, observed, results, model_key, n_reports,
             cache, n_calls, arrival>>

\* ---- helpers of BaseOptimizer ---------------------------------------------

\* self._n_process_range = range(0, int(self._config_.n_jobs))
_n_process_range(jobs) == 0..(jobs - 1)

\* a seeding that leaves the thread out: every job gets the same seed
_set_random_seed_same(rs, thread) ==
    IF rs # None /\ rs[1] # 0
    THEN rs[1]
    ELSE 0

\* a seeding whose else branch leaves the thread out
_set_random_seed_else_zero(rs, thread) ==
    IF rs # None /\ rs[1] # 0
    THEN rs[1] + thread
    ELSE 0

\* _set_random_seed: `if self.random_state:` is false for None and for 0
_set_random_seed(rs, thread) ==
    IF rs # None /\ rs[1] # 0
    THEN rs[1] + thread
    ELSE 0 + thread

\* an apportioning that compares the job id with <= instead of <
_set_n_steps_le(iters, jobs, nth_process) ==
    LET steps == iters \div jobs
        remain == iters % jobs
    IN IF nth_process <= remain THEN steps + 1 ELSE steps

\* _set_n_steps: int(n_iter / n_jobs), plus one for the first n_iter % n_jobs jobs
_set_n_steps(iters, jobs, nth_process) ==
    LET steps == iters \div jobs
        remain == iters % jobs
    IN IF nth_process < remain THEN steps + 1 ELSE steps

\* a loop range with one iteration too many
_tqdm_dict_one_more(iters, nth_process) == 0..iters

\* _tqdm_dict: "iterable": range(self.n_iter), the loop range of every job
_tqdm_dict(iters, nth_process) == 0..(iters - 1)

\* the candidate evaluating a position with the scoring function
eval_pos(pos) == scorefn[pos]

\* a commit that takes every evaluated position as the new best
CommitAlways(c, pos, score) ==
    [c EXCEPT !.pos = pos, !.score = score,
              !.pos_best = pos, !.score_best = score]

\* a commit that also overwrites the best on an equal score
CommitIfNotWorse(c, pos, score) ==
    IF score >= c.score_best
    THEN [c EXCEPT !.pos = pos, !.score = score,
                   !.pos_best = pos, !.score_best = score]
    ELSE [c EXCEPT !.pos = pos, !.score = score]

\* random_search.py:54-56, the commit on strict improvement
CommitIfBetter(c, pos, score) ==
    IF score > c.score_best
    THEN [c EXCEPT !.pos = pos, !.score = score,
                   !.pos_best = pos, !.score_best = score]
    ELSE [c EXCEPT !.pos = pos, !.score = score]

\* a search() that hands its candidate over along with the exception
RaisedResultWithCand(c) == [ok |-> FALSE, value |-> c]

\* what search() hands to its caller when the scoring function raises:
\* the exception alone, the _cand_ local goes with the frame
RaisedResult(c) == [ok |-> FALSE, value |-> None]

\* what search() hands to its caller at `return _cand_`
ReturnedResult(c) == [ok |-> TRUE, value |-> Some(c)]

\* ---- numpy argsort and _sort_for_best --------------------------------------

Perms(n) == {p \in [1..n -> 1..n] : \A a, b \in 1..n : a # b => p[a] # p[b]}

\* sort_by.argsort(): an index order that sorts ascending; the default sort
\* kind is not stable, so equal elements come in any order
argsort(a) ==
    {p \in Perms(Len(a)) :
        \A k \in 1..(Len(a) - 1) : a[p[k]] <= a[p[k + 1]]}

Reverse(s) == [k \in 1..Len(s) |-> s[Len(s) + 1 - k]]

\* an index_best without the [::-1]: worst first
index_best_ascending(sort_by) == argsort(sort_by)

\* the index_best lists _sort_for_best can compute: argsort()[::-1]
index_best_of(sort_by) == {Reverse(p) : p \in argsort(sort_by)}

\* a _sort_for_best that reorders sort_by alone
_sort_for_best_by_only(sort, sort_by, index_best) ==
    [sorted |-> sort,
     by_sorted |-> [k \in 1..Len(sort_by) |-> sort_by[index_best[k]]]]

\* _sort_for_best: both lists reordered by index_best
_sort_for_best(sort, sort_by, index_best) ==
    [sorted |-> [k \in 1..Len(sort) |-> sort[index_best[k]]],
     by_sorted |-> [k \in 1..Len(sort_by) |-> sort_by[index_best[k]]]]

\* ---- multiprocessing.Pool.map ----------------------------------------------

\* a map that is ready with the first outcome delivered
MapReadyFirst(res, jobs) == \E j \in _n_process_range(jobs) : res[j] # None

\* MapResult: the map is ready once every task has delivered its outcome
MapReady(res, jobs) == \A j \in _n_process_range(jobs) : res[j] # None

\* a map that succeeds when some task returned
MapSuccessAny(res, jobs) ==
    \E j \in _n_process_range(jobs) : res[j] # None /\ res[j][1].ok

\* MapResult: the map succeeded when no task raised
MapSuccess(res, jobs) ==
    \A j \in _n_process_range(jobs) : res[j] # None => res[j][1].ok

\* the candidates pool.map returns, in task order
RECURSIVE CandListFrom(_, _, _)
CandListFrom(res, j, jobs) ==
    IF j >= jobs THEN <<>>
    ELSE IF res[j] # None /\ res[j][1].ok
         THEN <<res[j][1].value[1]>> \o CandListFrom(res, j + 1, jobs)
         ELSE CandListFrom(res, j + 1, jobs)

\* the candidates in the order the jobs completed
_cand_list_unordered(res, jobs) ==
    LET done == SelectSeq(arrival, LAMBDA j : j < jobs /\ res[j][1].ok)
    IN [k \in 1..Len(done) |-> res[done[k]][1].value[1]]

_cand_list(res, jobs) == CandListFrom(res, 0, jobs)

\* _cand_._model_._create_model(_cand_._space_.pos2para(_cand_.pos_best))
create_model(c) == [nth_process |-> c.nth_process, para |-> c.pos_best]

\* ---- the model choice of a job ----------------------------------------------

\* the branch of _init_search that builds an MlCandidate
IsMl(type) == type = "sklearn" \/ type = "xgboost"

\* a model choice that compares the job id with <= instead of <
_get_sklearn_model_le(models, jobs, nth_process) ==
    IF models > jobs
    THEN {nth_process}
    ELSE IF nth_process <= models
         THEN {nth_process}
         ELSE 0..(models - 1)

\* _get_sklearn_model: the indices in model_list the job's model_key can have;
\* random.choice(self.model_list) is any index of the list
_get_sklearn_model(models, jobs, nth_process) ==
    IF models > jobs
    THEN {nth_process}
    ELSE IF nth_process < models
         THEN {nth_process}
         ELSE 0..(models - 1)

\* a report printed by every job
PrintsNotEnoughJobsEveryJob(models, jobs, nth_process) == models > jobs

\* _get_sklearn_model: the job that prints "Not enough jobs to process models"
PrintsNotEnoughJobs(models, jobs, nth_process) ==
    models > jobs /\ nth_process = 0

\* a fit that leaves the job slots of a keras search alone
EffectiveJobsAsGiven(type, jobs) == jobs

\* fit: `if self._config_.model_type == "keras": self._config_.n_jobs = 1`
EffectiveJobs(type, jobs) == IF type = "keras" THEN 1 ELSE jobs

\* ---- the memory of a candidate ------------------------------------------------

\* a memory that never finds a position
CacheNeverHit(j, pos) == FALSE

\* the position was scored before by this job and the memory is on
CacheHit(j, pos) == memory /\ cache[j][pos] # None

\* the score an evaluation of pos by job j yields, Raises when the scoring
\* function raises: the remembered score, else a call of the scoring function
Evaluation(j, pos) ==
    IF CacheHit(j, pos) THEN cache[j][pos][1] ELSE eval_pos(pos)

\* the bookkeeping of that evaluation: a miss calls the scoring function and,
\* with the memory on, stores its score
Memorize(j, pos) ==
    IF CacheHit(j, pos)
    THEN UNCHANGED <<cache, n_calls>>
    ELSE /\ n_calls' = [n_calls EXCEPT ![j][pos] = @ + 1]
         /\ cache' = IF memory /\ eval_pos(pos) # Raises
                     THEN [cache EXCEPT ![j][pos] = Some(eval_pos(pos))]
                     ELSE cache

\* ---- initial state ----------------------------------------------------------

IdleJobs ==
    /\ pc = [j \in Jobs |-> "none"]
    /\ seed = [j \in Jobs |-> None]
    /\ cand = [j \in Jobs |-> None]
    /\ loop_i = [j \in Jobs |-> 0]
    /\ observed = [j \in Jobs |-> <<>>]
    /\ results = [j \in Jobs |-> None]
    /\ model_key = [j \in Jobs |-> None]
    /\ n_reports = 0
    /\ cache = [j \in Jobs |-> [p \in Positions |-> None]]
    /\ n_calls = [j \in Jobs |-> [p \in Positions |-> 0]]
    /\ arrival = <<>>
    /\ score_best = None
    /\ model_best = None
    /\ fit_pc = "start"

\* the values of random_state: None, 0 and the positive seeds
RandomStates == {None} \cup {Some(s) : s \in 0..MaxSeed}

\* an optimizer constructed with the given choices of random_state, of the
\* number of models, of memory and of n_iter, fit not yet called
Constructed(seeds, models, memories, iters) ==
    /\ n_iter \in iters
    /\ self_n_jobs \in 1..MaxJobs
    /\ n_jobs = self_n_jobs
    /\ random_state \in seeds
    /\ scorefn \in [Positions -> Scores \cup {Raises}]
    /\ model_type \in ModelTypes
    /\ n_models \in models
    /\ memory \in memories
    /\ n_steps = <<>>
    /\ IdleJobs

\* the defaults random_state=None and memory=True, one model in search_config
Init == Constructed({None}, {1}, {TRUE}, 1..MaxIter)

\* ---- fit ----------------------------------------------------------------------

\* fit: one job slot runs search(0) in the caller, more dispatch to the pool
Fit ==
    /\ fit_pc = "start"
    /\ n_jobs' = EffectiveJobs(model_type, n_jobs)
    /\ fit_pc' = IF n_jobs' = 1 THEN "run_one_job" ELSE "pool_map"
    /\ pc' = [j \in Jobs |->
                IF j \in (IF n_jobs' = 1 THEN {0} ELSE _n_process_range(n_jobs))
                THEN "init_search" ELSE pc[j]]
    /\ UNCHANGED <<paramVars, seed, cand, loop_i, observed, results,
                   model_key, n_reports, cache, n_calls, arrival,
                   score_best, model_best, n_steps>>

\* the scoring function raised inside job j: search() is left by the exception
JobRaises(j) ==
    /\ pc' = [pc EXCEPT ![j] = "raised"]
    /\ results' = [results EXCEPT ![j] = Some(RaisedResult(cand[j]))]
    /\ arrival' = Append(arrival, j)
    /\ cand' = [cand EXCEPT ![j] = None]
    /\ UNCHANGED <<loop_i, observed>>

\* _init_search: seed, model key, start position, first evaluation,
\* score_best / pos_best
InitSearch(j) ==
    /\ pc[j] = "init_search"
    /\ seed' = [seed EXCEPT ![j] = Some(_set_random_seed(random_state, j))]
    /\ IF IsMl(model_type)
       THEN /\ \E key \in _get_sklearn_model(n_models, n_jobs, j) :
                 model_key' = [model_key EXCEPT ![j] = Some(key)]
            /\ n_reports' = IF PrintsNotEnoughJobs(n_models, n_jobs, j)
                            THEN n_reports + 1 ELSE n_reports
       ELSE UNCHANGED <<model_key, n_reports>>
    /\ \E pos \in Positions :
         LET score == Evaluation(j, pos) IN
         /\ Memorize(j, pos)
         /\ IF score = Raises
            THEN JobRaises(j)
            ELSE /\ cand' = [cand EXCEPT ![j] =
                               Some([nth_process |-> j, pos |-> pos,
                                     score |-> score,
                                     pos_best |-> pos, score_best |-> score])]
                 /\ observed' = [observed EXCEPT ![j] = Append(@, <<pos, score>>)]
                 /\ pc' = [pc EXCEPT ![j] = "search_start"]
                 /\ UNCHANGED <<loop_i, results, arrival>>
    /\ UNCHANGED <<configVars, fit_pc, score_best, model_best, n_steps>>

\* RandomSearchOptimizer.search before the loop: eval, score_best, pos_best
SearchStart(j) ==
    /\ pc[j] = "search_start"
    /\ LET c == cand[j][1]
           score == Evaluation(j, c.pos)
       IN /\ Memorize(j, c.pos)
          /\ cand' = [cand EXCEPT ![j] =
                        Some([c EXCEPT !.score = score,
                                       !.score_best = score,
                                       !.pos_best = c.pos])]
          /\ observed' = [observed EXCEPT ![j] = Append(@, <<c.pos, score>>)]
    /\ pc' = [pc EXCEPT ![j] = "iterate"]
    /\ UNCHANGED <<configVars, fit_pc, seed, loop_i, results, model_key,
                   n_reports, arrival, score_best, model_best, n_steps>>

\* one iteration of the search loop: _move, eval, commit on improvement
Iterate(j) ==
    /\ pc[j] = "iterate"
    /\ loop_i[j] \in _tqdm_dict(n_iter, j)
    /\ \E pos \in Positions :
         LET score == Evaluation(j, pos) IN
         /\ Memorize(j, pos)
         /\ IF score = Raises
            THEN JobRaises(j)
            ELSE /\ cand' = [cand EXCEPT ![j] =
                               Some(CommitIfBetter(cand[j][1], pos, score))]
                 /\ observed' = [observed EXCEPT ![j] = Append(@, <<pos, score>>)]
                 /\ loop_i' = [loop_i EXCEPT ![j] = @ + 1]
                 /\ UNCHANGED <<pc, results, arrival>>
    /\ UNCHANGED <<configVars, fit_pc, seed, model_key, n_reports,
                   score_best, model_best, n_steps>>

\* the loop range is exhausted: return _cand_
SearchReturn(j) ==
    /\ pc[j] = "iterate"
    /\ loop_i[j] \notin _tqdm_dict(n_iter, j)
    /\ pc' = [pc EXCEPT ![j] = "returned"]
    /\ results' = [results EXCEPT ![j] = Some(ReturnedResult(cand[j][1]))]
    /\ arrival' = Append(arrival, j)
    /\ UNCHANGED <<configVars, fit_pc, seed, cand, loop_i, observed,
                   model_key, n_reports, cache, n_calls,
                   score_best, model_best, n_steps>>

\* _run_one_job, then model_best.fit: search(0) returned or raised in the caller
RunOneJob ==
    /\ fit_pc = "run_one_job"
    /\ results[0] # None
    /\ IF results[0][1].ok
       THEN /\ score_best' = Some(results[0][1].value[1].score_best)
            /\ model_best' = Some(create_model(results[0][1].value[1]))
            /\ fit_pc' = "fitted"
       ELSE /\ fit_pc' = "raised"
            /\ UNCHANGED <<score_best, model_best>>
    /\ UNCHANGED <<configVars, jobVars, n_steps>>

\* _run_multiple_jobs, then model_best.fit: pool.map returns the candidates
\* or re-raises a job's exception; the candidates are sorted for the best
RunMultipleJobs ==
    /\ fit_pc = "pool_map"
    /\ MapReady(results, n_jobs)
    /\ IF MapSuccess(results, n_jobs)
       THEN LET cands == _cand_list(results, n_jobs)
                score_best_list == [k \in 1..Len(cands) |-> cands[k].score_best]
                model_best_list == [k \in 1..Len(cands) |-> create_model(cands[k])]
            IN \E index_best \in index_best_of(score_best_list) :
                 LET s == _sort_for_best(model_best_list, score_best_list,
                                         index_best)
                 IN /\ score_best' = Some(s.by_sorted[1])
                    /\ model_best' = Some(s.sorted[1])
                    /\ fit_pc' = "fitted"
       ELSE /\ fit_pc' = "raised"
            /\ UNCHANGED <<score_best, model_best>>
    /\ UNCHANGED <<configVars, jobVars, n_steps>>

Next ==
    \/ Fit
    \/ \E j \in Jobs : InitSearch(j)
    \/ \E j \in Jobs : SearchStart(j)
    \/ \E j \in Jobs : Iterate(j)
    \/ \E j \in Jobs : SearchReturn(j)
    \/ RunOneJob
    \/ RunMultipleJobs

Spec == Init /\ [][Next]_vars

\* every started job and the caller keep running
FairSpec == Spec /\ WF_vars(Next)

\* every random_state, searches of one iteration
SeedInit == Constructed(RandomStates, {1}, {TRUE}, {1})
SeedSpec == SeedInit /\ [][Next]_vars

\* every number of models in search_config, searches of one iteration
ModelInit == Constructed({None}, 1..MaxModels, {TRUE}, {1})
ModelSpec == ModelInit /\ [][Next]_vars

\* memory on and off
MemoryInit == Constructed({None}, {1}, BOOLEAN, 1..MaxIter)
MemorySpec == MemoryInit /\ [][Next]_vars

\* ---- a worker process of the pool dies -------------------------------------

\* the process running job j dies: the pool starts a new worker, the task of
\* the dead one is not run again and delivers no outcome
WorkerDies(j) ==
    /\ fit_pc = "pool_map"
    /\ pc[j] \in {"init_search", "search_start", "iterate"}
    /\ pc' = [pc EXCEPT ![j] = "died"]
    /\ cand' = [cand EXCEPT ![j] = None]
    /\ UNCHANGED <<configVars, fit_pc, seed, loop_i, observed, results,
                   model_key, n_reports, cache, n_calls, arrival,
                   score_best, model_best, n_steps>>

CrashNext ==
    \/ Next
    \/ \E j \in Jobs : WorkerDies(j)

\* the caller and the living workers keep running; a worker may die
CrashFairSpec == Init /\ [][CrashNext]_vars /\ WF_vars(Next)

\* ---- _set_n_steps applied to every job id -----------------------------------

StepsInit ==
    /\ n_iter \in 1..MaxTotal
    /\ self_n_jobs \in 1..MaxN
    /\ n_jobs = self_n_jobs
    /\ n_iter >= n_jobs
    /\ random_state = None
    /\ scorefn = [p \in Positions |-> 0]
    /\ model_type = "sklearn"
    /\ n_models = 1
    /\ memory = TRUE
    /\ n_steps = <<>>
    /\ IdleJobs

\* self.n_steps = self._set_n_steps(nth_process), for the next job id
SetNSteps ==
    /\ Len(n_steps) < n_jobs
    /\ n_steps' = Append(n_steps, _set_n_steps(n_iter, n_jobs, Len(n_steps)))
    /\ UNCHANGED <<configVars, fit_pc, jobVars, score_best, model_best>>

StepsNext == SetNSteps

StepsSpec == StepsInit /\ [][StepsNext]_vars

\* ---- properties ---------------------------------------------------------------

RECURSIVE SumSeq(_)
SumSeq(s) == IF s = <<>> THEN 0 ELSE s[1] + SumSeq(Tail(s))

MaxOf(S) == CHOOSE m \in S : \A x \in S : m >= x
MinOf(S) == CHOOSE m \in S : \A x \in S : m <= x

ObservedScores(j) == {observed[j][k][2] : k \in 1..Len(observed[j])}

\* C1: once _set_n_steps has been applied to the job ids 0..N-1 of a budget
\* total >= N >= 1, the budgets sum to total, and job i has floor(total/N) + 1
\* when i < total mod N and floor(total/N) otherwise.
BudgetsSumToTotal ==
    Len(n_steps) = n_jobs =>
        /\ SumSeq(n_steps) = n_iter
        /\ \A k \in 1..n_jobs :
             n_steps[k] = (n_iter \div n_jobs)
                          + (IF k - 1 < n_iter % n_jobs THEN 1 ELSE 0)

\* total = 10, N = 3 has been apportioned as 4, 3, 3
BudgetsTenByThree ==
    /\ n_iter = 10
    /\ n_jobs = 3
    /\ n_steps = <<4, 3, 3>>

\* C2: in a run with N > 1 jobs every job that returned has executed exactly
\* its apportioned number of loop iterations, _set_n_steps(job id).
JobsRunApportionedBudget ==
    \A j \in _n_process_range(n_jobs) :
        (n_jobs > 1 /\ n_iter >= n_jobs /\ pc[j] = "returned")
            => loop_i[j] = _set_n_steps(n_iter, n_jobs, j)

\* the candidates the reduction received and their best scores
ReducedCands == _cand_list(results, n_jobs)
ReducedScores == {ReducedCands[k].score_best : k \in 1..Len(ReducedCands)}

\* C3 as stated: after the reduction score_best is the maximum of the jobs'
\* best scores and model_best is the model of the lowest job id that reached it.
WinnerIsLowestIdOfMax ==
    (fit_pc = "fitted" /\ n_jobs > 1) =>
        /\ score_best = Some(MaxOf(ReducedScores))
        /\ model_best[1].nth_process =
             MinOf({j \in _n_process_range(n_jobs) :
                      results[j][1].value[1].score_best = MaxOf(ReducedScores)})

\* C3 amended: after the reduction score_best is the maximum of the jobs' best
\* scores and model_best is the model of a job that reached it; every order
\* of supplying the same results yields that same score_best.
ReductionPicksMaximum ==
    (fit_pc = "fitted" /\ n_jobs > 1) =>
        LET cands == ReducedCands
            best == MaxOf(ReducedScores)
        IN /\ score_best = Some(best)
           /\ \E k \in 1..Len(cands) :
                /\ cands[k].score_best = best
                /\ model_best = Some(create_model(cands[k]))
           /\ \A q \in Perms(Len(cands)) :
                LET supplied == [k \in 1..Len(cands) |-> cands[q[k]].score_best]
                IN \A ib \in index_best_of(supplied) :
                     _sort_for_best(supplied, supplied, ib).by_sorted[1] = best

\* several jobs tie at the maximum and the winner is not the lowest job id
TieWonByHigherId ==
    /\ fit_pc = "fitted"
    /\ n_jobs > 1
    /\ Cardinality(ReducedScores) = 1
    /\ model_best[1].nth_process # 0

\* C4: whenever a job holds a candidate, its score_best is the maximum of all
\* scores the job has observed, and no step of the job lowers score_best.
ScoreBestIsMaxObserved ==
    /\ [](\A j \in Jobs :
            cand[j] # None => cand[j][1].score_best = MaxOf(ObservedScores(j)))
    /\ [][\A j \in Jobs :
            (cand[j] # None /\ cand'[j] # None)
                => cand'[j][1].score_best >= cand[j][1].score_best]_vars

\* a job has evaluated a position that scored below its score_best
WorseScoreObserved ==
    \E j \in Jobs :
        /\ cand[j] # None
        /\ Len(observed[j]) >= 3
        /\ observed[j][Len(observed[j])][2] < cand[j][1].score_best

\* C5: pos_best is the earliest evaluated position whose score equals
\* score_best: an evaluation that only equals score_best changes neither.
PosBestIsEarliestOfBest ==
    \A j \in Jobs :
        cand[j] # None =>
            LET c == cand[j][1]
                first == MinOf({k \in 1..Len(observed[j]) :
                                  observed[j][k][2] = c.score_best})
            IN c.pos_best = observed[j][first][1]

\* a job has evaluated another position whose score equals its score_best
TieWithinJob ==
    \E j \in Jobs :
        /\ cand[j] # None
        /\ \E k \in 1..Len(observed[j]) :
             /\ observed[j][k][2] = cand[j][1].score_best
             /\ observed[j][k][1] # cand[j][1].pos_best

\* C6: in a multi-job run, score_best / model_best are chosen only when every
\* one of the N dispatched jobs has returned.
ReduceAfterAllJobs ==
    (n_jobs > 1 /\ (score_best # None \/ model_best # None)) =>
        \A j \in _n_process_range(n_jobs) : pc[j] = "returned"

\* a multi-job run has chosen its winner
MultiJobWinnerChosen ==
    /\ n_jobs > 1
    /\ score_best # None
    /\ fit_pc = "fitted"

SomeJobRaised == \E j \in Jobs : pc[j] = "raised"

\* C7: once the scoring function has raised in a job, no score_best / model_best
\* is ever reported and fit does not complete; fit ends by raising.
FailureIsSurfaced ==
    /\ [](SomeJobRaised =>
            /\ score_best = None
            /\ model_best = None
            /\ fit_pc # "fitted")
    /\ (SomeJobRaised ~> fit_pc = "raised")

\* fit has raised in a multi-job run although another job returned a candidate
RaisedDespiteSurvivor ==
    /\ fit_pc = "raised"
    /\ n_jobs > 1
    /\ \E j \in Jobs : pc[j] = "returned"
    /\ \E j \in Jobs : pc[j] = "raised"

\* C8: when a worker process dies while running a job, the caller eventually
\* observes a failure: fit raises instead of waiting forever.
DeadWorkerIsObserved ==
    (\E j \in Jobs : pc[j] = "died") ~> (fit_pc = "raised")

\* C9 as stated: after the scoring function raised in a job, the score_best the
\* job had committed is still available, in its candidate or in its outcome.
CommittedBestSurvivesFailure ==
    \A j \in Jobs :
        (pc[j] = "raised" /\ observed[j] # <<>>) =>
            \/ /\ cand[j] # None
               /\ cand[j][1].score_best = MaxOf(ObservedScores(j))
            \/ /\ results[j][1].value # None
               /\ results[j][1].value[1].score_best = MaxOf(ObservedScores(j))

\* C9 amended: after the scoring function raised in a job, the job takes no
\* further step, and only the exception reaches the caller: the candidate
\* with the committed score_best / pos_best is gone.
RaisedJobStopsAndReturnsNothing ==
    /\ [](\A j \in Jobs :
            pc[j] = "raised" =>
                /\ cand[j] = None
                /\ results[j] = Some([ok |-> FALSE, value |-> None]))
    /\ [][\A j \in Jobs :
            pc[j] = "raised" =>
                /\ pc'[j] = "raised"
                /\ loop_i'[j] = loop_i[j]
                /\ observed'[j] = observed[j]
                /\ results'[j] = results[j]]_vars

\* the scoring function raised in the loop of a job that had committed a best
RaisedAfterCommit ==
    \E j \in Jobs :
        /\ pc[j] = "raised"
        /\ Len(observed[j]) >= 2

Seeded(j) == pc[j] \notin {"none", "init_search"}

\* C10 as stated: a job is seeded with random_state + job id when random_state
\* is supplied, and stays unseeded when it is not.
SeedIsBasePlusIdOrUnseeded ==
    \A j \in Jobs :
        Seeded(j) =>
            seed[j] = IF random_state # None
                      THEN Some(random_state[1] + j)
                      ELSE None

\* C10 amended: a job is seeded with random_state + job id when random_state
\* is supplied, and with 0 + job id when it is not; no job stays unseeded.
SeedIsBasePlusId ==
    \A j \in Jobs :
        Seeded(j) =>
            seed[j] = Some((IF random_state = None THEN 0 ELSE random_state[1]) + j)

\* a job other than job 0 has been seeded without a random_state
SeededWithoutRandomState ==
    \E j \in Jobs :
        /\ j > 0
        /\ Seeded(j)
        /\ random_state = None
        /\ seed[j] = Some(j)

\* C12: in a sklearn search with more models than job slots, job i gets
\* model_list[i], no job gets one of the last n_models - n_jobs models, and the
\* report of the dropped models is printed once per run: never twice, and once
\* when every job has gone through _init_search.
ExcessModelsDroppedOnce ==
    (IsMl(model_type) /\ n_models > n_jobs) =>
        /\ \A j \in Jobs : Seeded(j) => model_key[j] = Some(j)
        /\ \A j \in Jobs : \A m \in n_jobs..(n_models - 1) :
             model_key[j] # Some(m)
        /\ n_reports <= 1
        /\ (\A j \in _n_process_range(n_jobs) : Seeded(j)) => n_reports = 1

\* two jobs have taken the first two of three models and the report was printed
TwoJobsThreeModels ==
    /\ IsMl(model_type)
    /\ n_models = 3
    /\ n_jobs = 2
    /\ \A j \in _n_process_range(n_jobs) : Seeded(j)
    /\ n_reports = 1

StartedJobs == {j \in Jobs : pc[j] # "none"}

\* C13: once fit has started the jobs, a keras search has one job slot; with
\* one slot exactly job 0 runs, in the caller and not in the pool; with N > 1
\* slots exactly the jobs 0..N-1 run, in the pool; no job id is started twice.
OneJobInCallerElsePool ==
    /\ [](fit_pc # "start" =>
            /\ model_type = "keras" => n_jobs = 1
            /\ model_type # "keras" => n_jobs = self_n_jobs
            /\ StartedJobs = 0..(n_jobs - 1)
            /\ n_jobs = 1 => fit_pc # "pool_map"
            /\ n_jobs > 1 => fit_pc # "run_one_job")
    /\ [][\A j \in Jobs :
            pc[j] \notin {"none", "init_search"} => pc'[j] # "init_search"]_vars

\* a keras search asked for two jobs has run job 0 alone
KerasRanOneJob ==
    /\ model_type = "keras"
    /\ self_n_jobs = 2
    /\ fit_pc = "fitted"
    /\ StartedJobs = {0}

\* C14: with memory on, a job calls the scoring function at most once for a
\* position, and every evaluation of the position has the remembered score.
MemoryCallsOnce ==
    memory =>
        \A j \in Jobs :
            /\ \A p \in Positions : n_calls[j][p] <= 1
            /\ \A k \in 1..Len(observed[j]) :
                 cache[j][observed[j][k][1]] = Some(observed[j][k][2])

\* a job has evaluated a position twice on one call of the scoring function
RevisitedWithoutCall ==
    /\ memory
    /\ \E j \in Jobs : \E k, l \in 1..Len(observed[j]) :
         /\ k < l
         /\ observed[j][k][1] = observed[j][l][1]
         /\ n_calls[j][observed[j][k][1]] = 1

\* C15: when a job is about to run the first iteration of its loop, it has
\* evaluated its start position once, and nothing else, and score_best /
\* pos_best are the score and the position of that evaluation.
StartEvaluatedOnce ==
    \A j \in Jobs :
        (pc[j] = "iterate" /\ loop_i[j] = 0) =>
            /\ Len(observed[j]) = 1
            /\ cand[j][1].pos_best = observed[j][1][1]
            /\ cand[j][1].score_best = observed[j][1][2]

NeverRaises == \A p \in Positions : scorefn[p] # Raises

\* C16: with a scoring function that never raises, every started job ends up
\* returned, after as many iterations as its loop range has, its outcome being
\* its candidate with the best score it observed; the iterations are taken one
\* at a time, each with one evaluation, and a returned job takes no more step.
JobsTerminate ==
    /\ \A j \in Jobs :
         (NeverRaises /\ pc[j] = "init_search") ~>
             /\ pc[j] = "returned"
             /\ loop_i[j] = n_iter
             /\ results[j] = Some([ok |-> TRUE, value |-> cand[j]])
             /\ cand[j][1].score_best = MaxOf(ObservedScores(j))
    /\ [][\A j \in Jobs :
            /\ loop_i'[j] \in {loop_i[j], loop_i[j] + 1}
            /\ loop_i'[j] = loop_i[j] + 1 =>
                 Len(observed'[j]) = Len(observed[j]) + 1
            /\ pc[j] = "returned" =>
                 /\ pc'[j] = "returned"
                 /\ cand'[j] = cand[j]
                 /\ loop_i'[j] = loop_i[j]
                 /\ observed'[j] = observed[j]
                 /\ results'[j] = results[j]]_vars

\* every job of a multi-job run has returned after its full loop
AllJobsReturned ==
    /\ n_jobs > 1
    /\ NeverRaises
    /\ \A j \in _n_process_range(n_jobs) :
         pc[j] = "returned" /\ loop_i[j] = n_iter /\ n_iter > 1

\* the step is one of the started job j: it changes something of the job
JobStepped(j) ==
    /\ pc[j] # "none"
    /\ \/ pc'[j] # pc[j]
       \/ loop_i'[j] # loop_i[j]
       \/ cand'[j] # cand[j]
       \/ observed'[j] # observed[j]

\* C17: the candidates the reduction consumes are those of the jobs 0..N-1 in
\* job-id order whatever the order the jobs completed in, the winner is one the
\* sort of that list can put first, and a step of one job leaves the candidate,
\* the evaluations and the memory of every other job as they were.
ReductionInputInIdOrder ==
    /\ []((fit_pc = "fitted" /\ n_jobs > 1) =>
            LET cands == ReducedCands
                byId == [k \in 1..n_jobs |-> results[k - 1][1].value[1]]
                scores == [k \in 1..n_jobs |-> byId[k].score_best]
            IN /\ Len(cands) = n_jobs
               /\ \A k \in 1..n_jobs : cands[k].nth_process = k - 1
               /\ \E ib \in index_best_of(scores) :
                    /\ model_best = Some(create_model(byId[ib[1]]))
                    /\ score_best = Some(scores[ib[1]]))
    /\ [][\A j, k \in Jobs :
            (j # k /\ JobStepped(k)) =>
                /\ cand'[j] = cand[j]
                /\ observed'[j] = observed[j]
                /\ cache'[j] = cache[j]
                /\ pc'[j] = pc[j]]_vars

\* the winner was chosen although job 1 completed before job 0
ReducedAfterLateJobZero ==
    /\ fit_pc = "fitted"
    /\ n_jobs > 1
    /\ arrival[1] # 0

\* C18: after the reduction of a multi-job run, score_best is the score_best
\* and model_best the model of pos_best of one and the same job.
BestScoreAndModelFromSameJob ==
    (fit_pc = "fitted" /\ n_jobs > 1) =>
        LET c == results[model_best[1].nth_process][1].value[1]
        IN /\ score_best = Some(c.score_best)
           /\ model_best[1].para = c.pos_best

\* the jobs of a reduced run tie in score with different best positions
TiedJobsDifferentModels ==
    /\ fit_pc = "fitted"
    /\ n_jobs > 1
    /\ Cardinality(ReducedScores) = 1
    /\ \E k \in 1..Len(ReducedCands) :
         ReducedCands[k].pos_best # model_best[1].para

\* C19: the model key of a job is an index of model_list, and when there are
\* at least as many job slots as models, job i has model_list[i] for every
\* i < n_models once the jobs have gone through _init_search.
ModelKeyInList ==
    /\ \A j \in Jobs :
         model_key[j] # None => model_key[j][1] \in 0..(n_models - 1)
    /\ \A j \in Jobs : (IsMl(model_type) /\ Seeded(j)) => model_key[j] # None
    /\ (IsMl(model_type) /\ n_jobs >= n_models) =>
         \A m \in 0..(n_models - 1) : Seeded(m) => model_key[m] = Some(m)

\* a job beyond the models has drawn its key with random.choice
RandomChoiceTaken ==
    /\ IsMl(model_type)
    /\ \E j \in Jobs : j >= n_models /\ model_key[j] # None

\* C20: two jobs of a run never have the same seed, and with random_state 0 as
\* with random_state None the seed of a job is its job id.
SeedsDistinctZeroAsNone ==
    /\ \A j, k \in Jobs :
         (j # k /\ Seeded(j) /\ Seeded(k)) => seed[j] # seed[k]
    /\ \A j \in Jobs :
         (Seeded(j) /\ random_state \in {None, Some(0)}) => seed[j] = Some(j)

\* two jobs of a run with random_state 0 are seeded with 0 and 1
ZeroSeedsByJobId ==
    /\ random_state = Some(0)
    /\ Seeded(0) /\ seed[0] = Some(0)
    /\ Seeded(1) /\ seed[1] = Some(1)

====
